---- MODULE Spec2Model ----
(***************************************************************************)
(* GlobalTrackManager (src/src/tracking/global_track_manager.py) as a      *)
(* state machine.                                                          *)
(*                                                                         *)
(* Units.  Time is counted in tenths of a second (1000.0 s = 10000), so    *)
(* track_timeout = 30.0 s is 300.  Confidences and similarities are in     *)
(* thousandths (0.75 = 750).  Floating point rounding is not modelled:     *)
(* the embeddings are integer vectors whose norms are integers, so every   *)
(* similarity is an exact number of thousandths.                           *)
(*                                                                         *)
(* Optional values.  Python's None is the empty tuple <<>> and a present   *)
(* value x is <<x>> for the fields a caller may leave None (timestamp,     *)
(* reid_features) and for the matcher's optional result.                   *)
(*                                                                         *)
(* Scheduling.  associate_detection is a coroutine, but the only things it *)
(* awaits are the coroutines _cleanup_stale_tracks and _find_best_match,   *)
(* neither of which awaits anything that suspends; under asyncio a call    *)
(* therefore runs to completion without yielding to the event loop, and    *)
(* one call is one action.                                                 *)
(***************************************************************************)
EXTENDS Integers, Sequences, FiniteSets, TLC

VARIABLES
    global_tracks,      \* self.global_tracks: global_id -> GlobalTrack
    camera_tracks,      \* self.camera_tracks: camera_id -> (local_id -> global_id)
    global_id_counter,  \* self.global_id_counter
    metrics,            \* self.metrics (processing_time_ms as its length)
    now,                \* the wall clock read by time.time()
    last,               \* the most recent call: its input and its outcome
    submitted,          \* the number of detections the callers have submitted
    stats,              \* ReIDProcessor.stats (processing_times as its length)
    tasks,              \* the event loop's tasks created by the processor, in order
    probed              \* the number of invocations of the probe callback

vars == <<global_tracks, camera_tracks, global_id_counter, metrics, now, last,
          submitted, stats, tasks, probed>>

(* The variables of the processor in front of the manager.                 *)
processor == <<stats, tasks, probed>>

----------------------------------------------------------------------------
(* Configuration: the constructor's defaults, and the window of latency    *)
(* samples that get_track_statistics averages.                             *)

ReidThreshold == 750
TrackTimeout == 300
MinConfidence == 500
RecentK == 10
WeightMax == 7
WeightAvg == 3
IdWidth == 6
LatencyWindow == 1000

(* ReIDConfig.confidence_threshold, and the number of processing times the *)
(* probe callback keeps.                                                   *)
ConfidenceThreshold == 500
ProcessingWindow == 1000

(* Bounds of the model: the number of calls of associate_detection, and   *)
(* the wall clock at construction.  The wall clock is far past the stream  *)
(* times 1000.0 and 1000.1 that replayed detections carry, as time.time()  *)
(* is on any running system.                                               *)
MaxDetections == 3
ClockStart == 1700000000

(* The number of calls in the long run.                                    *)
LongRunCalls == 1001

(* The constructor's argument max_history (default 100).  A track takes    *)
(* one embedding per camera that sees it, so with two cameras a deque of   *)
(* one element is the one that overflows.                                  *)
MaxHistory == 1

(* The number of buffers that reach the probe.                             *)
MaxBuffers == 2

NoneVal == <<>>
Some(x) == <<x>>
IsNone(o) == o = <<>>
Get(o) == o[1]

----------------------------------------------------------------------------
(* f"GT_{n:06d}": the decimal digits of n, left-padded with "0" to at      *)
(* least six characters, after the prefix "GT_".  An id is the sequence    *)
(* of its characters.                                                      *)

DigitChars == <<"0", "1", "2", "3", "4", "5", "6", "7", "8", "9">>

RECURSIVE DecimalDigits(_)
DecimalDigits(n) ==
    IF n < 10 THEN <<DigitChars[n + 1]>>
    ELSE DecimalDigits(n \div 10) \o <<DigitChars[(n % 10) + 1]>>

RECURSIVE ZeroPad(_, _)
ZeroPad(s, w) == IF Len(s) >= w THEN s ELSE ZeroPad(<<"0">> \o s, w)

IdPrefix == <<"G", "T", "_">>

FormatGlobalId(n) == IdPrefix \o ZeroPad(DecimalDigits(n), IdWidth)

----------------------------------------------------------------------------
(* Detection (dataclass) and its __post_init__.                            *)

BBoxList == [type |-> "list", xywh |-> <<100, 100, 50, 100>>]
BBoxTuple == [type |-> "tuple", xywh |-> <<100, 100, 50, 100>>]
BBoxDefault == [type |-> "list", xywh |-> <<0, 0, 0, 0>>]

(* A bbox of None becomes [0.0, 0.0, 0.0, 0.0]; a timestamp equal to 0.0   *)
(* becomes time.time().  A timestamp of None is not 0.0 and stays None.    *)
Detection(camera_id, local_id, confidence, bbox, reid_features, timestamp, t) ==
    [camera_id |-> camera_id,
     local_id |-> local_id,
     confidence |-> confidence,
     bbox |-> IF IsNone(bbox) THEN BBoxDefault ELSE Get(bbox),
     reid_features |-> reid_features,
     timestamp |-> IF timestamp = Some(0) THEN Some(t) ELSE timestamp]

(* detection.bbox.copy(): a list has copy(), a tuple has not               *)
(* (AttributeError).                                                       *)
BBoxCopyRaises(d) == d.bbox.type # "list"

----------------------------------------------------------------------------
(* compute_reid_similarity: cosine similarity of the two vectors, clamped  *)
(* below at 0; any exception inside (a shape mismatch in cosine()) gives   *)
(* 0.0.  A zero vector stays zero after the division by norm + 1e-8, its   *)
(* cosine distance is nan, and max(0.0, nan) is 0.0.                       *)

RECURSIVE Dot(_, _)
Dot(a, b) == IF Len(a) = 0 THEN 0 ELSE a[1] * b[1] + Dot(Tail(a), Tail(b))

ISqrt(x) == CHOOSE r \in 0..x : r * r <= x /\ x < (r + 1) * (r + 1)

Norm(a) == ISqrt(Dot(a, a))

Max2(x, y) == IF x >= y THEN x ELSE y

compute_reid_similarity(features1, features2) ==
    IF Len(features1) # Len(features2) THEN 0
    ELSE IF Norm(features1) = 0 \/ Norm(features2) = 0 THEN 0
    ELSE Max2(0, (Dot(features1, features2) * 1000)
                    \div (Norm(features1) * Norm(features2)))

----------------------------------------------------------------------------
(* The manager's state as one value, so that the methods are operators     *)
(* from state to state.  A method's result is [exc, m, ret]: whether it    *)
(* raised, the state it left, and what it returned.                        *)

Manager(gt, ct, ctr, mt) ==
    [global_tracks |-> gt, camera_tracks |-> ct, global_id_counter |-> ctr,
     metrics |-> mt]

Returned(m, ret) == [exc |-> FALSE, m |-> m, ret |-> ret]
Raised(m) == [exc |-> TRUE, m |-> m, ret |-> NoneVal]

(* Faulty variant: a full memory keeps what it has and drops the newcomer. *)
DequeAppendKeepOldest(q, x) ==
    IF Len(q) >= MaxHistory THEN q ELSE q \o <<x>>

(* deque(maxlen=max_history).append: the oldest element leaves when full.  *)
DequeAppend(q, x) ==
    IF Len(q) >= MaxHistory THEN Tail(q) \o <<x>> ELSE q \o <<x>>

TrajectoryPoint(d) ==
    [timestamp |-> d.timestamp, bbox |-> d.bbox, confidence |-> d.confidence,
     local_id |-> d.local_id]

(* defaultdict(list)[k].append(x)                                          *)
ListAppendAt(h, k, x) ==
    IF k \in DOMAIN h THEN [h EXCEPT ![k] = @ \o <<x>>]
    ELSE [j \in DOMAIN h \cup {k} |-> IF j = k THEN <<x>> ELSE h[j]]

(* defaultdict(list)[k]: the access alone inserts an empty list.           *)
ListTouch(h, k) ==
    IF k \in DOMAIN h THEN h
    ELSE [j \in DOMAIN h \cup {k} |-> IF j = k THEN <<>> ELSE h[j]]

(* dict[k] = v                                                             *)
DictSet(f, k, v) == [j \in DOMAIN f \cup {k} |-> IF j = k THEN v ELSE f[j]]

EmptyDict == [j \in {} |-> 0]

----------------------------------------------------------------------------
(* _create_new_global_track.  The counter is incremented first; the new    *)
(* GlobalTrack is a local until it is stored, so when bbox.copy() raises   *)
(* only the incremented counter is left behind.                            *)

NewTrack(gid, d) ==
    [global_id |-> gid,
     cameras_seen |-> {d.camera_id},
     last_seen |-> d.timestamp,
     reid_features |-> IF IsNone(d.reid_features) THEN <<>>
                       ELSE DequeAppend(<<>>, Get(d.reid_features)),
     trajectory_history |-> ListAppendAt(EmptyDict, d.camera_id, TrajectoryPoint(d)),
     confidence_scores |-> <<d.confidence>>,
     creation_time |-> d.timestamp,
     total_detections |-> 1]

(* Faulty variant: the track is built and its identifier returned, but the track   *)
(* is never stored in global_tracks.                                       *)
create_without_store(m, d) ==
    LET m1 == [m EXCEPT !.global_id_counter = @ + 1]
    IN  IF BBoxCopyRaises(d) THEN Raised(m1)
        ELSE Returned([m1 EXCEPT !.metrics.new_tracks_created = @ + 1],
                      FormatGlobalId(m1.global_id_counter))

(* Faulty variant: the identifier is numbered by the count of live tracks instead  *)
(* of by a counter that only grows.                                        *)
create_numbering_live_tracks(m, d) ==
    LET m1 == [m EXCEPT !.global_id_counter = Cardinality(DOMAIN m.global_tracks) + 1]
        global_id == FormatGlobalId(m1.global_id_counter)
    IN  IF BBoxCopyRaises(d) THEN Raised(m1)
        ELSE Returned([m1 EXCEPT
                          !.global_tracks = DictSet(@, global_id, NewTrack(global_id, d)),
                          !.metrics.new_tracks_created = @ + 1],
                      global_id)

create_new_global_track(m, d) ==
    LET m1 == [m EXCEPT !.global_id_counter = @ + 1]
        global_id == FormatGlobalId(m1.global_id_counter)
    IN  IF BBoxCopyRaises(d) THEN Raised(m1)
        ELSE Returned([m1 EXCEPT
                          !.global_tracks = DictSet(@, global_id, NewTrack(global_id, d)),
                          !.metrics.new_tracks_created = @ + 1],
                      global_id)

(* _update_existing_track.  The track is changed in place field by field;  *)
(* in the last statement trajectory_history[camera_id] is evaluated (and   *)
(* inserted, empty, when missing) before bbox.copy() can raise.            *)

(* Faulty variant: the update leaves last_seen as it was.                  *)
UpdatedFieldsKeepingLastSeen(track, d) ==
    [track EXCEPT
        !.cameras_seen = @ \cup {d.camera_id},
        !.total_detections = @ + 1,
        !.confidence_scores = Append(@, d.confidence),
        !.reid_features = IF IsNone(d.reid_features) THEN @
                          ELSE DequeAppend(@, Get(d.reid_features))]

UpdatedFields(track, d) ==
    [track EXCEPT
        !.cameras_seen = @ \cup {d.camera_id},
        !.last_seen = d.timestamp,
        !.total_detections = @ + 1,
        !.confidence_scores = Append(@, d.confidence),
        !.reid_features = IF IsNone(d.reid_features) THEN @
                          ELSE DequeAppend(@, Get(d.reid_features))]

update_existing_track(m, global_id, d) ==
    LET t1 == UpdatedFields(m.global_tracks[global_id], d)
    IN  IF BBoxCopyRaises(d)
        THEN Raised([m EXCEPT !.global_tracks[global_id] =
                        [t1 EXCEPT !.trajectory_history = ListTouch(@, d.camera_id)]])
        ELSE Returned([m EXCEPT !.global_tracks[global_id] =
                          [t1 EXCEPT !.trajectory_history =
                              ListAppendAt(@, d.camera_id, TrajectoryPoint(d))]],
                      global_id)

----------------------------------------------------------------------------
(* _cleanup_stale_tracks at wall-clock time t.  current_time - last_seen   *)
(* raises TypeError for a track whose last_seen is None; that happens in   *)
(* the first loop, before anything is deleted.                             *)

(* Faulty variant: a track counts as stale only after twice the timeout.   *)
IsStaleAfterTwiceTimeout(track, t) == t - Get(track.last_seen) > TrackTimeout + TrackTimeout

IsStale(track, t) == t - Get(track.last_seen) > TrackTimeout

StaleTracks(gt, t) == {g \in DOMAIN gt : IsStale(gt[g], t)}

(* Faulty variant: the camera mappings are not cleaned up.                 *)
KeepIndex(ct, gt) == ct

PruneIndex(ct, gt) ==
    [c \in DOMAIN ct |->
        [l \in {k \in DOMAIN ct[c] : ct[c][k] \in DOMAIN gt} |-> ct[c][l]]]

cleanup_stale_tracks(m, t) ==
    IF \E g \in DOMAIN m.global_tracks : IsNone(m.global_tracks[g].last_seen)
    THEN Raised(m)
    ELSE LET stale == StaleTracks(m.global_tracks, t)
             gt == [g \in DOMAIN m.global_tracks \ stale |-> m.global_tracks[g]]
         IN  Returned([m EXCEPT
                          !.global_tracks = gt,
                          !.metrics.tracks_timeout = @ + Cardinality(stale),
                          !.camera_tracks = PruneIndex(@, gt)],
                      NoneVal)

----------------------------------------------------------------------------
(* _find_best_match.  The tracks are visited in the dict's insertion       *)
(* order, which is the order of creation, i.e. of the counter.  A score is *)
(* 0.7 * max + 0.3 * mean of the similarities to the last ten stored       *)
(* features; it is kept exact by scaling with (7 + 3) * ScoreDen, where    *)
(* ScoreDen is a common multiple of the possible numbers of similarities.  *)

ScoreDen == 8 * 9 * 5 * 7

RECURSIVE SeqSum(_)
SeqSum(q) == IF Len(q) = 0 THEN 0 ELSE q[1] + SeqSum(Tail(q))

RECURSIVE SeqMax(_)
SeqMax(q) == IF Len(q) = 1 THEN q[1] ELSE Max2(q[1], SeqMax(Tail(q)))

FinalScore(similarities) ==
    WeightMax * SeqMax(similarities) * ScoreDen
    + WeightAvg * SeqSum(similarities) * (ScoreDen \div Len(similarities))

ScaledThreshold == ReidThreshold * (WeightMax + WeightAvg) * ScoreDen

RecentFeatures(q) == SubSeq(q, Max2(1, Len(q) - RecentK + 1), Len(q))

Similarities(d, track) ==
    LET recent == RecentFeatures(track.reid_features)
    IN  [i \in 1..Len(recent) |->
            compute_reid_similarity(Get(d.reid_features), recent[i])]

(* Faulty variant: a track with an empty memory compares as a perfect      *)
(* match.                                                                  *)
TrackSimilaritiesDefaultingToMatch(d, track) ==
    IF Len(track.reid_features) > 0 THEN Similarities(d, track) ELSE <<1000>>

(* The similarities list of one track: nothing is compared when            *)
(* track.reid_features is empty.                                           *)
TrackSimilarities(d, track) ==
    IF Len(track.reid_features) > 0 THEN Similarities(d, track) ELSE <<>>

NoMatch == [exc |-> FALSE, id |-> NoneVal, score |-> 0, sim_calls |-> 0]

(* The candidate predicate of the scan: not the detection's camera, and    *)
(* not older than the timeout.                                             *)
(* Faulty variant: the same-camera skip is missing.                        *)
SameCameraIgnored(track, d) == FALSE

SameCamera(track, d) == d.camera_id \in track.cameras_seen

(* The counter values from n on whose identifiers are keys of              *)
(* global_tracks.                                                          *)
LiveFrom(m, n) ==
    {k \in n..m.global_id_counter : FormatGlobalId(k) \in DOMAIN m.global_tracks}

RECURSIVE MatchFrom(_, _, _, _, _)
MatchFrom(m, d, t, n, acc) ==
    IF LiveFrom(m, n) = {} THEN acc
    ELSE LET k == CHOOSE k \in LiveFrom(m, n) : \A j \in LiveFrom(m, n) : k <= j
             g == FormatGlobalId(k)
             track == m.global_tracks[g]
         IN  IF SameCamera(track, d) THEN MatchFrom(m, d, t, k + 1, acc)
             ELSE IF IsNone(track.last_seen) THEN [acc EXCEPT !.exc = TRUE]
             ELSE IF IsStale(track, t) THEN MatchFrom(m, d, t, k + 1, acc)
             ELSE IF /\ ~IsNone(d.reid_features)
                     /\ Len(TrackSimilarities(d, track)) > 0
             THEN LET similarities == TrackSimilarities(d, track)
                      final_score == FinalScore(similarities)
                      seen == [acc EXCEPT !.sim_calls = @ + Len(similarities)]
                  IN  MatchFrom(m, d, t, k + 1,
                         IF final_score > acc.score
                         THEN [seen EXCEPT !.id = Some(g), !.score = final_score]
                         ELSE seen)
             ELSE MatchFrom(m, d, t, k + 1, acc)

(* What the matcher returns, with the manager as the scan left it.         *)
ScanResult(m, r) ==
    [exc |-> r.exc, m |-> m, id |-> r.id, score |-> r.score,
     sim_calls |-> r.sim_calls]

(* Faulty variant: the scan looks the detection's camera up by subscript,  *)
(* and the defaultdict inserts an empty mapping for a camera not seen yet. *)
find_best_match_touching_index(m, d, t) ==
    ScanResult([m EXCEPT !.camera_tracks =
                    IF d.camera_id \in DOMAIN @ THEN @
                    ELSE DictSet(@, d.camera_id, EmptyDict)],
               MatchFrom(m, d, t, 1, NoMatch))

(* The scan only reads global_tracks and the detection.                    *)
find_best_match(m, d, t) == ScanResult(m, MatchFrom(m, d, t, 1, NoMatch))

----------------------------------------------------------------------------
(* associate_detection.  The outcome is [exc, m, ret, path, matcher_called,*)
(* sim_calls, match_id, match_score]: path names the return statement      *)
(* taken, match_id and match_score are what _find_best_match returned.     *)

Outcome(r, path, matcher_called, sim_calls) ==
    [exc |-> r.exc, m |-> r.m, ret |-> r.ret, path |-> path,
     matcher_called |-> matcher_called, sim_calls |-> sim_calls,
     match_id |-> NoneVal, match_score |-> 0]

Matched(o, match) == [o EXCEPT !.match_id = match.id, !.match_score = match.score]

(* except Exception: return self._create_new_global_track(detection); an   *)
(* exception raised here leaves the coroutine.                             *)
Fallback(m, d, matcher_called, sim_calls) ==
    Outcome(create_new_global_track(m, d), "fallback", matcher_called, sim_calls)

(* return self._create_new_global_track(detection) inside the try block.   *)
Bypass(m, d, path) ==
    LET r == create_new_global_track(m, d)
    IN  IF r.exc THEN Fallback(r.m, d, FALSE, 0)
        ELSE Outcome(r, path, FALSE, 0)

(* Faulty variant: a score equal to the threshold counts as a match.        *)
IsMatchAtThreshold(match) == ~IsNone(match.id) /\ match.score >= ScaledThreshold

IsMatch(match) == ~IsNone(match.id) /\ match.score > ScaledThreshold

(* Faulty variant: the tail of the try block counts an association for     *)
(* every detection it binds, newly created tracks included.                *)
CommitCountingAssociation(m, d, global_id) ==
    [m EXCEPT
        !.camera_tracks =
            DictSet(@, d.camera_id,
                    DictSet(IF d.camera_id \in DOMAIN @ THEN @[d.camera_id]
                            ELSE EmptyDict,
                            d.local_id, global_id)),
        !.metrics.cross_camera_associations = @ + 1,
        !.metrics.processing_time_ms = @ + 1]

(* The tail of the try block: the camera-local mapping and the latency.    *)
Commit(m, d, global_id) ==
    [m EXCEPT
        !.camera_tracks =
            DictSet(@, d.camera_id,
                    DictSet(IF d.camera_id \in DOMAIN @ THEN @[d.camera_id]
                            ELSE EmptyDict,
                            d.local_id, global_id)),
        !.metrics.processing_time_ms = @ + 1]

MatchOrCreate(m, d, match) ==
    IF IsMatch(match)
    THEN LET r == update_existing_track(m, Get(match.id), d)
         IN  IF r.exc THEN r
             ELSE Returned([r.m EXCEPT !.metrics.cross_camera_associations = @ + 1],
                           r.ret)
    ELSE create_new_global_track(m, d)

associate_detection(m, d, t) ==
    LET m0 == [m EXCEPT !.metrics.total_detections = @ + 1]
        gc == cleanup_stale_tracks(m0, t)
    IN  IF gc.exc THEN Fallback(gc.m, d, FALSE, 0)
        ELSE IF d.confidence < MinConfidence THEN Bypass(gc.m, d, "low_confidence")
        ELSE IF IsNone(d.reid_features) THEN Bypass(gc.m, d, "no_features")
        ELSE LET match == find_best_match(gc.m, d, t) IN
            IF match.exc THEN Fallback(match.m, d, TRUE, match.sim_calls)
            ELSE LET r == MatchOrCreate(match.m, d, match) IN
                IF r.exc THEN Matched(Fallback(r.m, d, TRUE, match.sim_calls), match)
                ELSE Matched(Outcome(Returned(Commit(r.m, d, r.ret), r.ret),
                                     IF IsMatch(match) THEN "matched" ELSE "created",
                                     TRUE, match.sim_calls),
                             match)

----------------------------------------------------------------------------
(* The read queries.  A query's result carries, besides [exc, m, ret], the *)
(* object of the manager that the returned value is (ref), or NoneVal when *)
(* the returned value is an object of its own.                             *)

Min2(x, y) == IF x <= y THEN x ELSE y

ReturnedCopy(m, ret) == [exc |-> FALSE, m |-> m, ret |-> ret, ref |-> NoneVal]
ReturnedRef(m, ret, ref) == [exc |-> FALSE, m |-> m, ret |-> ret, ref |-> Some(ref)]

(* get_track_statistics at wall-clock time t.  current_time - t.last_seen  *)
(* raises TypeError for a track whose last_seen is None.  The mean of the  *)
(* last 1000 latencies is given by the number of samples it is taken over. *)
get_track_statistics(m, t) ==
    LET gt == m.global_tracks IN
    IF \E g \in DOMAIN gt : IsNone(gt[g].last_seen)
    THEN [exc |-> TRUE, m |-> m, ret |-> NoneVal, ref |-> NoneVal]
    ELSE ReturnedCopy(m,
            [total_global_tracks |-> Cardinality(DOMAIN gt),
             active_tracks |->
                Cardinality({g \in DOMAIN gt : t - Get(gt[g].last_seen) < TrackTimeout}),
             cross_camera_tracks |->
                Cardinality({g \in DOMAIN gt : Cardinality(gt[g].cameras_seen) > 1}),
             cameras_tracked |-> Cardinality(DOMAIN m.camera_tracks),
             samples_averaged |-> Min2(m.metrics.processing_time_ms, LatencyWindow),
             metrics |-> m.metrics])

(* self.global_tracks.get(global_id): the GlobalTrack object itself.       *)
get_global_track(m, global_id) ==
    IF global_id \in DOMAIN m.global_tracks
    THEN ReturnedRef(m, Some(m.global_tracks[global_id]),
                     [field |-> "global_tracks", key |-> global_id])
    ELSE ReturnedCopy(m, NoneVal)

(* Faulty variant: self.camera_tracks[camera_id], which makes the          *)
(* defaultdict insert a missing key and hands out the inner dict itself.   *)
get_camera_tracks_by_subscript(m, camera_id) ==
    LET ct == IF camera_id \in DOMAIN m.camera_tracks THEN m.camera_tracks
              ELSE DictSet(m.camera_tracks, camera_id, EmptyDict)
    IN  ReturnedRef([m EXCEPT !.camera_tracks = ct], ct[camera_id],
                    [field |-> "camera_tracks", key |-> camera_id])

(* self.camera_tracks.get(camera_id, {}).copy(): get() inserts nothing.    *)
get_camera_tracks(m, camera_id) ==
    ReturnedCopy(m, IF camera_id \in DOMAIN m.camera_tracks
                    THEN m.camera_tracks[camera_id] ELSE EmptyDict)

RECURSIVE TotalLen(_, _)
TotalLen(h, keys) ==
    IF keys = {} THEN 0
    ELSE LET k == CHOOSE j \in keys : TRUE
         IN  Len(h[k]) + TotalLen(h, keys \ {k})

TrackExport(track) ==
    [cameras_seen |-> track.cameras_seen,
     total_detections |-> track.total_detections,
     creation_time |-> track.creation_time,
     last_seen |-> track.last_seen,
     trajectory_points |->
        TotalLen(track.trajectory_history, DOMAIN track.trajectory_history),
     confidence_sum |-> SeqSum(track.confidence_scores),
     confidence_count |-> Len(track.confidence_scores)]

(* export_tracks_for_validation at time t; it raises when the statistics   *)
(* do.                                                                     *)
export_tracks_for_validation(m, t) ==
    LET track_stats == get_track_statistics(m, t) IN
    IF track_stats.exc THEN track_stats
    ELSE ReturnedCopy(track_stats.m,
            [timestamp |-> t,
             tracks |-> [g \in DOMAIN track_stats.m.global_tracks |->
                            TrackExport(track_stats.m.global_tracks[g])],
             statistics |-> track_stats.ret])

(* What a caller's returned[local_id] = global_id does to the manager: it  *)
(* writes into the manager's own dict when that is what was returned.      *)
WriteReturnedMapping(r, local_id, global_id) ==
    IF IsNone(r.ref) THEN r.m
    ELSE [r.m EXCEPT !.camera_tracks[Get(r.ref).key] = DictSet(@, local_id, global_id)]

----------------------------------------------------------------------------
(* The inputs.                                                             *)

Cameras == {0, 1}
Confidence == [high |-> 900, low |-> 400]
E1 == <<3, 4, 0, 0, 0>>
E2 == <<4, 3, 0, 0, 0>>
E3 == <<1, 3, 2, 1, 1>>
StreamTime == [first |-> 10000, second |-> 10001]

(* The embeddings have cosine similarities E1.E2 = 0.96 (above the        *)
(* threshold), E1.E3 = 0.75 (exactly the threshold) and E2.E3 = 0.65       *)
(* (below it).                                                             *)
(* Well-formed detections stamped at ingestion (timestamp left 0.0): an    *)
(* object seen by camera 0 with embedding E1, and seen by camera 1 with    *)
(* E2 or with E3.                                                          *)
Nominal(t) ==
    {Detection(0, 1, Confidence.high, Some(BBoxList), Some(E1), Some(0), t)}
    \cup {Detection(1, 1, Confidence.high, Some(BBoxList), Some(e), Some(0), t) :
            e \in {E2, E3}}

(* A detection of camera 0 that reaches the manager a tenth of a second    *)
(* after it was stamped.                                                   *)
Lagging(t) ==
    {Detection(0, 2, Confidence.high, Some(BBoxList), Some(E3), Some(t - 1), t)}

(* Detections that carry stream timestamps 1000.0 and 1000.1.              *)
Replayed(t) ==
    {Detection(0, 1, Confidence.high, Some(BBoxList), Some(E1), Some(StreamTime.first), t),
     Detection(1, 1, Confidence.high, Some(BBoxList), Some(E2), Some(StreamTime.second), t)}

(* Detections that bypass the matcher: low confidence, no embedding.       *)
Bypassing(t) ==
    {Detection(1, 2, Confidence.low, Some(BBoxList), Some(E1), Some(0), t),
     Detection(1, 2, Confidence.high, Some(BBoxList), NoneVal, Some(0), t)}

(* Payloads the dataclass accepts and the manager trips over: a bbox that  *)
(* is a tuple (on the matching path and on both bypasses), a timestamp     *)
(* that is None.                                                           *)
Malformed(t) ==
    {Detection(1, 1, Confidence.high, Some(BBoxTuple), Some(E1), Some(0), t),
     Detection(1, 2, Confidence.low, Some(BBoxTuple), Some(E1), Some(0), t),
     Detection(1, 2, Confidence.high, Some(BBoxTuple), NoneVal, Some(0), t),
     Detection(0, 1, Confidence.high, Some(BBoxList), Some(E1), NoneVal, t)}

(* Detections of camera 1 whose embedding has two components where the    *)
(* stored ones have five, with a bbox that is a list or a tuple.           *)
EShort == <<3, 4>>

Mismatched(t) ==
    {Detection(1, 1, Confidence.high, Some(b), Some(EShort), Some(0), t) :
        b \in {BBoxList, BBoxTuple}}

Detections(t) ==
    Nominal(t) \cup Lagging(t) \cup Replayed(t) \cup Bypassing(t) \cup Malformed(t)

ClockValues == {ClockStart, ClockStart + TrackTimeout, ClockStart + TrackTimeout + 1}

----------------------------------------------------------------------------
(* __init__                                                                *)

(* ReIDProcessor.__init__: self.stats.                                     *)
InitStats ==
    [frames_processed |-> 0, detections_processed |-> 0,
     reid_features_extracted |-> 0, processing_times |-> 0, errors |-> 0]

InitMetrics ==
    [total_detections |-> 0, cross_camera_associations |-> 0,
     new_tracks_created |-> 0, tracks_timeout |-> 0, processing_time_ms |-> 0]

Init ==
    /\ global_tracks = EmptyDict
    /\ camera_tracks = EmptyDict
    /\ global_id_counter = 0
    /\ metrics = InitMetrics
    /\ now = ClockStart
    /\ last = [op |-> "init", d |-> NoneVal, t |-> ClockStart, exc |-> FALSE,
               ret |-> NoneVal, path |-> "none", matcher_called |-> FALSE,
               sim_calls |-> 0, match_id |-> NoneVal, match_score |-> 0]
    /\ submitted = 0
    /\ stats = InitStats
    /\ tasks = <<>>
    /\ probed = 0

Self == Manager(global_tracks, camera_tracks, global_id_counter, metrics)

(* One run of the coroutine associate_detection, at time now for           *)
(* detection d.                                                            *)
RunCoroutine(d) ==
    /\ \E o \in {associate_detection(Self, d, now)} :
        /\ global_tracks' = o.m.global_tracks
        /\ camera_tracks' = o.m.camera_tracks
        /\ global_id_counter' = o.m.global_id_counter
        /\ metrics' = o.m.metrics
        /\ last' = [op |-> "associate", d |-> d, t |-> now, exc |-> o.exc,
                    ret |-> o.ret, path |-> o.path,
                    matcher_called |-> o.matcher_called,
                    sim_calls |-> o.sim_calls, match_id |-> o.match_id,
                    match_score |-> o.match_score]
    /\ submitted' = submitted + 1
    /\ UNCHANGED now

(* One call of associate_detection awaited by a caller of the manager.     *)
Call(d) == RunCoroutine(d) /\ UNCHANGED processor

(* One call with a detection built at time now.                            *)
Associate ==
    /\ submitted < MaxDetections
    /\ \E d \in Detections(now) : Call(d)

(* Time passes between calls.                                              *)
Tick ==
    /\ \E t \in ClockValues : t > now /\ now' = t
    /\ UNCHANGED <<global_tracks, camera_tracks, global_id_counter, metrics, last,
                   submitted, processor>>

(* The read queries, at any moment between two calls.                      *)
(* They are asked for the identifier issued last and for one not issued    *)
(* yet, and for the cameras and one camera more.                           *)
QueryIds == {FormatGlobalId(global_id_counter), FormatGlobalId(global_id_counter + 1)}
QueryCameras == Cameras \cup {Cardinality(Cameras)}

Becomes(m) ==
    /\ global_tracks' = m.global_tracks
    /\ camera_tracks' = m.camera_tracks
    /\ global_id_counter' = m.global_id_counter
    /\ metrics' = m.metrics
    /\ UNCHANGED <<now, last, submitted, processor>>

GetTrackStatistics ==
    \E r \in {get_track_statistics(Self, now)} : Becomes(r.m)

GetGlobalTrack == \E g \in QueryIds : Becomes(get_global_track(Self, g).m)

GetCameraTracks ==
    \E c \in QueryCameras : \E r \in {get_camera_tracks(Self, c)} : Becomes(r.m)

(* get_camera_tracks by a caller that goes on to write an entry into the   *)
(* mapping it was given.                                                   *)
GetCameraTracksAndWrite ==
    \E c \in QueryCameras : \E r \in {get_camera_tracks(Self, c)} :
        Becomes(WriteReturnedMapping(r, Cardinality(DOMAIN r.ret) + 1,
                                     FormatGlobalId(global_id_counter + 1)))

ExportTracksForValidation ==
    \E r \in {export_tracks_for_validation(Self, now)} : Becomes(r.m)

Next ==
    \/ Associate
    \/ Tick
    \/ GetTrackStatistics
    \/ GetGlobalTrack
    \/ GetCameraTracks
    \/ GetCameraTracksAndWrite
    \/ ExportTracksForValidation

Spec == Init /\ [][Next]_vars

(* A long run: one camera replays a recorded stream, every detection       *)
(* stamped with the stream time, call after call.                          *)
AssociateReplayed ==
    /\ submitted < LongRunCalls
    /\ \E d \in {dd \in Replayed(now) : dd.camera_id = 0} : Call(d)

LongRunNext == AssociateReplayed

(* The kernel in floating point.  The quotient u.v / (|u| |v|) is rounded, *)
(* so it can land one unit in the last place off the exact value, on       *)
(* either side; the unit here is a thousandth.  cosine() is the imported   *)
(* scipy function, whose release is not fixed by the repository: some      *)
(* releases return the distance 1 - u.v / (|u| |v|) as computed, others    *)
(* clamp it into [0, 2] before returning.                                  *)
Rounding == {0 - 1, 0, 1}

Clamp(x, lo, hi) == IF x < lo THEN lo ELSE IF x > hi THEN hi ELSE x

CosineQuotient(u, v, r) == (Dot(u, v) * 1000) \div (Norm(u) * Norm(v)) + r

cosine(u, v, r, clamped) ==
    IF clamped THEN Clamp(1000 - CosineQuotient(u, v, r), 0, 2000)
    ELSE 1000 - CosineQuotient(u, v, r)

(* compute_reid_similarity with the rounding and the library made          *)
(* explicit; with r = 0 it is compute_reid_similarity above.               *)
compute_reid_similarity_fp(features1, features2, r, clamped) ==
    IF Len(features1) # Len(features2) THEN 0
    ELSE IF Norm(features1) = 0 \/ Norm(features2) = 0 THEN 0
    ELSE Max2(0, 1000 - cosine(features1, features2, r, clamped))

(* Vectors the kernel is applied to: all of integer norm (so that the      *)
(* integer square root is exact), with negative components, the zero       *)
(* vector, and vectors of other lengths.                                   *)
KernelVectors ==
    {<<3, 4>>, <<4, 3>>, <<0 - 3, 4>>, <<0 - 3, 0 - 4>>, <<5, 0>>,
     <<0, 0>>, <<5>>, <<3, 4, 0>>, <<2, 2, 1>>, <<0, 0, 0>>}

ComputeReidSimilarity ==
    /\ \E f1 \in KernelVectors, f2 \in KernelVectors, r \in Rounding,
          clamped \in BOOLEAN :
          last' = [op |-> "similarity", features1 |-> f1, features2 |-> f2,
                   rounding |-> r, clamped |-> clamped,
                   ret |-> compute_reid_similarity_fp(f1, f2, r, clamped)]
    /\ UNCHANGED <<global_tracks, camera_tracks, global_id_counter, metrics,
                   now, submitted, processor>>

KernelNext == ComputeReidSimilarity

KernelSpec == Init /\ [][KernelNext]_vars

(* Runs in which embeddings of two shapes arrive.                          *)
AssociateShapes ==
    /\ submitted < MaxDetections
    /\ \E d \in Nominal(now) \cup Mismatched(now) : Call(d)

ShapeNext == AssociateShapes \/ Tick

ShapeSpec == Init /\ [][ShapeNext]_vars

(* Runs in which every source (camera_id, local_id) submits in timestamp   *)
(* order: the sources of Nominal stamp with the clock, the source of       *)
(* Lagging stamps a tenth of a second behind it, and the clock never goes  *)
(* back.                                                                   *)
AssociateOrdered ==
    /\ submitted < MaxDetections
    /\ \E d \in Nominal(now) \cup Lagging(now) : Call(d)

OrderedNext == AssociateOrdered \/ Tick

OrderedSpec == Init /\ [][OrderedNext]_vars

----------------------------------------------------------------------------
(* ReIDProcessor: the probe callback made by create_gst_probe_callback.    *)
(* A buffer is described by what the bindings give for it: no buffer, no   *)
(* batch metadata, an exception, or a batch of frames; a frame by its      *)
(* source_id and its objects, or by what casting it raises; an object by   *)
(* its fields, or by what casting or reading it raises.                    *)

(* _normalize_features: the vector divided by its norm, in thousandths; a  *)
(* vector of norm 0 is returned as it is.                                  *)
normalize_features(features) ==
    IF Norm(features) > 0
    THEN [i \in 1..Len(features) |-> (features[i] * 1000) \div Norm(features)]
    ELSE features

(* _extract_detection_from_metadata: None when reading the object raises;  *)
(* else the Detection, stamped time.time(), with the normalised features   *)
(* when the object carries some (reid_features_extracted counts those).    *)
extract_detection_from_metadata(st, obj, camera_id, t) ==
    IF obj.unreadable THEN [stats |-> st, detection |-> NoneVal]
    ELSE [stats |-> IF IsNone(obj.reid_features) THEN st
                    ELSE [st EXCEPT !.reid_features_extracted = @ + 1],
          detection |->
            Some(Detection(camera_id, obj.object_id, obj.confidence, Some(BBoxList),
                           IF IsNone(obj.reid_features) THEN NoneVal
                           ELSE Some(normalize_features(Get(obj.reid_features))),
                           Some(t), t))]

(* The loop of _process_frame_metadata over the objects.  StopIteration    *)
(* ends it; any other exception is logged and the loop goes on with the    *)
(* next object.  asyncio.create_task raises RuntimeError when no event     *)
(* loop is running in the calling thread, which is such an exception.      *)
RECURSIVE process_objects(_, _, _, _, _, _)
process_objects(st, tk, objs, camera_id, loop, t) ==
    IF Len(objs) = 0 THEN [stats |-> st, tasks |-> tk]
    ELSE LET obj == Head(objs) IN
        IF obj.cast = "stop" THEN [stats |-> st, tasks |-> tk]
        ELSE IF obj.cast = "error"
        THEN process_objects(st, tk, Tail(objs), camera_id, loop, t)
        ELSE IF obj.confidence < ConfidenceThreshold
        THEN process_objects(st, tk, Tail(objs), camera_id, loop, t)
        ELSE LET e == extract_detection_from_metadata(st, obj, camera_id, t) IN
            IF IsNone(e.detection)
            THEN process_objects(e.stats, tk, Tail(objs), camera_id, loop, t)
            ELSE IF ~loop
            THEN process_objects(e.stats, tk, Tail(objs), camera_id, loop, t)
            ELSE process_objects(
                    [e.stats EXCEPT !.detections_processed = @ + 1],
                    Append(tk, Get(e.detection)), Tail(objs), camera_id, loop, t)

(* The loop of the callback over the frames of the batch.  StopIteration   *)
(* from the cast ends it; any other exception leaves the loop.             *)
RECURSIVE process_frames(_, _, _, _, _)
process_frames(st, tk, frames, loop, t) ==
    IF Len(frames) = 0 THEN [exc |-> FALSE, stats |-> st, tasks |-> tk]
    ELSE LET frame == Head(frames) IN
        IF frame.cast = "stop" THEN [exc |-> FALSE, stats |-> st, tasks |-> tk]
        ELSE IF frame.cast = "error" THEN [exc |-> TRUE, stats |-> st, tasks |-> tk]
        ELSE LET r == process_objects(st, tk, frame.objects, frame.source_id, loop, t)
             IN  process_frames(r.stats, r.tasks, Tail(frames), loop, t)

(* Faulty variant: the handler does not count the error.                   *)
ProbeExceptUncounted(st, tk) ==
    [ret |-> "OK", stats |-> st, tasks |-> tk, handled |-> TRUE]

(* except Exception: log, count, return Gst.PadProbeReturn.OK.             *)
ProbeExcept(st, tk) ==
    [ret |-> "OK", stats |-> [st EXCEPT !.errors = @ + 1], tasks |-> tk,
     handled |-> TRUE]

ProbeReturn(st, tk) == [ret |-> "OK", stats |-> st, tasks |-> tk, handled |-> FALSE]

reid_probe_callback(st, tk, buffer, loop, t) ==
    IF buffer.kind = "error" THEN ProbeExcept(st, tk)
    ELSE IF buffer.kind \in {"no_buffer", "no_batch_meta"} THEN ProbeReturn(st, tk)
    ELSE LET r == process_frames(st, tk, buffer.frames, loop, t) IN
        IF r.exc THEN ProbeExcept(r.stats, r.tasks)
        ELSE ProbeReturn(
                [r.stats EXCEPT !.frames_processed = @ + 1,
                                !.processing_times = Min2(@ + 1, ProcessingWindow)],
                r.tasks)

(* The buffers that reach the probe.                                       *)
Object(object_id, confidence, reid_features) ==
    [cast |-> "ok", unreadable |-> FALSE, object_id |-> object_id,
     confidence |-> confidence, reid_features |-> reid_features]

UnreadableObject ==
    [cast |-> "ok", unreadable |-> TRUE, object_id |-> 2,
     confidence |-> Confidence.high, reid_features |-> NoneVal]

Frame(source_id, objects) ==
    [cast |-> "ok", source_id |-> source_id, objects |-> objects]

BrokenFrame == [cast |-> "error"]

EndOfFrames == [cast |-> "stop"]

Batch(frames) == [kind |-> "batch", frames |-> frames]

Buffers ==
    {[kind |-> "no_buffer"], [kind |-> "no_batch_meta"], [kind |-> "error"],
     Batch(<<Frame(0, <<Object(1, Confidence.high, Some(E1))>>)>>),
     Batch(<<Frame(1, <<Object(1, Confidence.high, Some(E2)),
                        Object(2, Confidence.low, Some(E1))>>)>>),
     Batch(<<Frame(0, <<Object(1, Confidence.high, Some(E1))>>), BrokenFrame>>),
     Batch(<<Frame(1, <<UnreadableObject, [cast |-> "error"],
                        Object(2, Confidence.high, NoneVal)>>),
             EndOfFrames>>)}

(* One invocation of the probe callback, in a thread where an event loop   *)
(* is running or in one where none is.                                     *)
ReidProbeCallback ==
    /\ probed < MaxBuffers
    /\ \E buffer \in Buffers, loop \in BOOLEAN :
        \E r \in {reid_probe_callback(stats, tasks, buffer, loop, now)} :
            /\ stats' = r.stats
            /\ tasks' = r.tasks
            /\ last' = [op |-> "probe", buffer |-> buffer, loop |-> loop,
                        ret |-> r.ret, handled |-> r.handled]
    /\ probed' = probed + 1
    /\ UNCHANGED <<global_tracks, camera_tracks, global_id_counter, metrics, now,
                   submitted>>

(* The event loop runs the oldest task the callback created.               *)
RunTask ==
    /\ Len(tasks) > 0
    /\ submitted < MaxDetections
    /\ RunCoroutine(Head(tasks))
    /\ tasks' = Tail(tasks)
    /\ UNCHANGED <<stats, probed>>

ProbeNext == ReidProbeCallback \/ RunTask \/ Tick

ProbeSpec == Init /\ [][ProbeNext]_vars

LongRunSpec == Init /\ [][LongRunNext]_vars

----------------------------------------------------------------------------
(* Reading an identifier back, for the properties below.                   *)

DigitSet == {DigitChars[i] : i \in 1..Len(DigitChars)}

DigitValue(c) == (CHOOSE i \in 1..Len(DigitChars) : DigitChars[i] = c) - 1

RECURSIVE DigitsValue(_)
DigitsValue(q) ==
    IF Len(q) = 0 THEN 0
    ELSE 10 * DigitsValue(SubSeq(q, 1, Len(q) - 1)) + DigitValue(q[Len(q)])

(* "GT_" followed by at least six decimal digits.                          *)
IsGlobalIdSyntax(g) ==
    /\ Len(g) >= Len(IdPrefix) + IdWidth
    /\ SubSeq(g, 1, Len(IdPrefix)) = IdPrefix
    /\ \A i \in (Len(IdPrefix) + 1)..Len(g) : g[i] \in DigitSet

IdNumber(g) == DigitsValue(SubSeq(g, Len(IdPrefix) + 1, Len(g)))

LiveIds == DOMAIN global_tracks

(* The step is one call of associate_detection.                            *)
AssociateStep == submitted' = submitted + 1

AssociateReturned == last.op = "associate" /\ ~last.exc

GT1 == <<"G", "T", "_", "0", "0", "0", "0", "0", "1">>

----------------------------------------------------------------------------
(* C1.  Every value associate_detection returns, on whichever path, is an  *)
(* identifier "GT_" + zero-padded digits whose number is a counter value   *)
(* already issued, and it is a key of global_tracks when the call returns. *)
C1_ReturnIsLiveGlobalId ==
    AssociateReturned =>
        /\ IsGlobalIdSyntax(last.ret)
        /\ IdNumber(last.ret) \in 1..global_id_counter
        /\ last.ret \in LiveIds

(* C1 witness: a call that went through the exception fallback returned.   *)
C1_Witness ==
    /\ AssociateReturned
    /\ last.path = "fallback"
    /\ last.ret \in LiveIds

----------------------------------------------------------------------------
(* C2.  In every step the counter does not decrease; every identifier that *)
(* enters global_tracks carries a number above the counter's old value and *)
(* at most its new value; a creation that is counted raises the counter;   *)
(* and every live identifier, which is the key and the global_id field of  *)
(* its track, is numbered at most the counter.  So an identifier once      *)
(* issued, live or removed, is never issued again.                         *)
C2_IdsNeverReused ==
    [][/\ global_id_counter' >= global_id_counter
       /\ \A g \in DOMAIN global_tracks' \ DOMAIN global_tracks :
            /\ IdNumber(g) > global_id_counter
            /\ IdNumber(g) <= global_id_counter'
       /\ metrics'.new_tracks_created > metrics.new_tracks_created
            => global_id_counter' > global_id_counter
       /\ \A g \in DOMAIN global_tracks' :
            /\ IdNumber(g) <= global_id_counter'
            /\ global_tracks'[g].global_id = g
            /\ FormatGlobalId(IdNumber(g)) = g]_vars

(* C2 witness: a track has been removed by the timeout and a track created *)
(* after that is live.                                                     *)
C2_Witness ==
    /\ metrics.tracks_timeout >= 1
    /\ last.op = "associate"
    /\ last.ret \in LiveIds
    /\ IdNumber(last.ret) >= 2
    /\ Cardinality(LiveIds) < global_id_counter

----------------------------------------------------------------------------
WellFormed(d) == d.bbox.type = "list" /\ ~IsNone(d.timestamp)

(* C3.  When a well-formed detection arrives whose (camera_id, local_id)   *)
(* is bound in camera_tracks to a live, fresh track and the call returns   *)
(* without the fallback, the call returns the bound identifier and the     *)
(* detection is appended to that track's trajectory under its camera.      *)
IndexBinding(ct, d) ==
    IF d.camera_id \in DOMAIN ct /\ d.local_id \in DOMAIN ct[d.camera_id]
    THEN Some(ct[d.camera_id][d.local_id]) ELSE NoneVal

BoundToFreshTrack(d) ==
    LET b == IndexBinding(camera_tracks, d) IN
    /\ ~IsNone(b)
    /\ Get(b) \in LiveIds
    /\ \A g \in LiveIds : ~IsNone(global_tracks[g].last_seen)
    /\ ~IsStale(global_tracks[Get(b)], now)

C3_BoundLocalTrackKeepsIdentity ==
    [][(/\ AssociateStep
        /\ WellFormed(last'.d)
        /\ ~last'.exc
        /\ last'.path # "fallback"
        /\ BoundToFreshTrack(last'.d))
       => LET g == Get(IndexBinding(camera_tracks, last'.d)) IN
          /\ last'.ret = g
          /\ g \in DOMAIN global_tracks'
          /\ global_tracks'[g].trajectory_history[last'.d.camera_id] =
                Append(global_tracks[g].trajectory_history[last'.d.camera_id],
                       TrajectoryPoint(last'.d))]_vars

----------------------------------------------------------------------------
(* C4.  No call of associate_detection ends by raising.                    *)
C4_AssociateNeverRaises == last.op = "associate" => ~last.exc

----------------------------------------------------------------------------
(* C5.  After every call that returns g for a detection d, whichever path  *)
(* it took, camera_tracks[d.camera_id][d.local_id] = g.                    *)
C5_IndexPointsToReturnedId ==
    AssociateReturned => IndexBinding(camera_tracks, last.d) = Some(last.ret)

----------------------------------------------------------------------------
(* C6.  Between calls, every identifier stored in camera_tracks is a key   *)
(* of global_tracks.                                                       *)
C6_IndexConsistent ==
    \A c \in DOMAIN camera_tracks : \A l \in DOMAIN camera_tracks[c] :
        camera_tracks[c][l] \in LiveIds

(* C6 witness: the timeout has removed a track, its index entry is gone    *)
(* (its camera's map is left empty) and another camera's entry is kept.    *)
C6_Witness ==
    /\ metrics.tracks_timeout >= 1
    /\ \E c \in DOMAIN camera_tracks : DOMAIN camera_tracks[c] = {}
    /\ \E c \in DOMAIN camera_tracks : DOMAIN camera_tracks[c] # {}

----------------------------------------------------------------------------
(* C7.  Scenario B: GT_000001 is the only track, created by a detection on *)
(* camera 0 stamped 1000.0; the next detection comes from camera 1, is     *)
(* stamped 1000.1, has confidence >= min_confidence and scores above       *)
(* reid_threshold against that track.  Then the call returns GT_000001,    *)
(* whose cameras_seen becomes {0, 1}, and cross_camera_associations is 1.  *)
C7_ScenarioB ==
    [][(/\ last.op = "associate"
        /\ last.path = "created"
        /\ last.d.camera_id = 0
        /\ last.d.timestamp = Some(StreamTime.first)
        /\ last.ret = GT1
        /\ LiveIds = {GT1}
        /\ metrics.cross_camera_associations = 0
        /\ AssociateStep
        /\ WellFormed(last'.d)
        /\ last'.d.camera_id = 1
        /\ last'.d.timestamp = Some(StreamTime.second)
        /\ last'.d.confidence >= MinConfidence
        /\ ~IsNone(last'.d.reid_features)
        /\ FinalScore(Similarities(last'.d, global_tracks[GT1])) > ScaledThreshold)
       => /\ last'.ret = GT1
          /\ GT1 \in DOMAIN global_tracks'
          /\ global_tracks'[GT1].cameras_seen = {0, 1}
          /\ metrics'.cross_camera_associations = 1]_vars

----------------------------------------------------------------------------
(* C8 as stated.  A call never returns the identifier of a track whose     *)
(* cameras_seen contained the detection's camera, and a well-formed        *)
(* detection for which such a track exists always gets an identifier that  *)
(* was not in global_tracks before.                                        *)
TracksOfCamera(gt, c) == {g \in DOMAIN gt : c \in gt[g].cameras_seen}

C8_SameCameraAlwaysNew ==
    [][(/\ AssociateStep
        /\ WellFormed(last'.d)
        /\ ~last'.exc
        /\ TracksOfCamera(global_tracks, last'.d.camera_id) # {})
       => /\ last'.ret \notin TracksOfCamera(global_tracks, last'.d.camera_id)
          /\ last'.ret \notin DOMAIN global_tracks]_vars

(* C8 as amended.  The identifier a call returns is never that of a track  *)
(* whose cameras_seen contained the detection's camera: it is a newly      *)
(* created one or that of a track seen by other cameras only; and it is    *)
(* newly created whenever every track's cameras_seen contained the         *)
(* detection's camera.                                                     *)
C8_SameCameraNeverBound ==
    [][(AssociateStep /\ ~last'.exc)
       => /\ last'.ret \notin TracksOfCamera(global_tracks, last'.d.camera_id)
          /\ (TracksOfCamera(global_tracks, last'.d.camera_id) = DOMAIN global_tracks
                => last'.ret \notin DOMAIN global_tracks)]_vars

(* C8 witness (Scenario F): the matcher ran for a detection, a live track  *)
(* of the same camera holds the very same embedding, and the detection got *)
(* a track of its own.                                                     *)
C8_Witness ==
    /\ AssociateReturned
    /\ last.path = "created"
    /\ last.matcher_called
    /\ \E g \in LiveIds :
        /\ g # last.ret
        /\ last.d.camera_id \in global_tracks[g].cameras_seen
        /\ ~IsStale(global_tracks[g], now)
        /\ global_tracks[g].reid_features = <<Get(last.d.reid_features)>>

----------------------------------------------------------------------------
(* C9.  A call for a detection with confidence < min_confidence returns    *)
(* the identifier of the next counter value, new_tracks_created grows by   *)
(* one, cross_camera_associations stays, and every track that is still     *)
(* there is as it was.                                                     *)
C9_LowConfidenceBypass ==
    [][(AssociateStep /\ last'.d.confidence < MinConfidence)
       => /\ ~last'.exc
          /\ last'.ret = FormatGlobalId(global_id_counter + 1)
          /\ last'.ret \in DOMAIN global_tracks' \ DOMAIN global_tracks
          /\ metrics'.new_tracks_created = metrics.new_tracks_created + 1
          /\ metrics'.cross_camera_associations = metrics.cross_camera_associations
          /\ \A g \in DOMAIN global_tracks \cap DOMAIN global_tracks' :
                global_tracks'[g] = global_tracks[g]]_vars

----------------------------------------------------------------------------
(* C10.  A call for a detection without an embedding returns an identifier *)
(* that was not in global_tracks before, and neither the matcher nor the   *)
(* similarity kernel runs in that call.                                    *)
C10_MissingEmbeddingBypass ==
    [][(AssociateStep /\ IsNone(last'.d.reid_features))
       => /\ ~last'.exc
          /\ last'.ret \in DOMAIN global_tracks' \ DOMAIN global_tracks
          /\ ~last'.matcher_called
          /\ last'.sim_calls = 0]_vars

----------------------------------------------------------------------------
(* C11.  Scenario E: every track whose last_seen is more than              *)
(* track_timeout behind the wall clock when a call for a well-formed       *)
(* detection starts is gone from global_tracks when the call ends,         *)
(* tracks_timeout has grown by one for each such track, the call returns   *)
(* the identifier of a live track other than the removed one, and that     *)
(* identifier is newly created when the stale tracks were the only ones.   *)
StaleAt(gt, t) == {g \in DOMAIN gt : ~IsNone(gt[g].last_seen) /\ IsStale(gt[g], t)}

C11_StaleTrackRemovedAndReplaced ==
    [][(/\ AssociateStep
        /\ WellFormed(last'.d)
        /\ StaleAt(global_tracks, now) # {})
       => /\ StaleAt(global_tracks, now) \cap DOMAIN global_tracks' = {}
          /\ metrics'.tracks_timeout =
                metrics.tracks_timeout + Cardinality(StaleAt(global_tracks, now))
          /\ ~last'.exc
          /\ last'.ret \in DOMAIN global_tracks' \ StaleAt(global_tracks, now)
          /\ (StaleAt(global_tracks, now) = DOMAIN global_tracks
                => last'.ret \notin DOMAIN global_tracks)]_vars

----------------------------------------------------------------------------
(* The candidates of a detection at time t and their combined scores, as   *)
(* the matching rule defines them: live tracks not yet seen by the         *)
(* detection's camera, not older than the timeout, with a non-empty        *)
(* embedding memory.                                                       *)
Candidates(gt, d, t) ==
    {g \in DOMAIN gt :
        /\ d.camera_id \notin gt[g].cameras_seen
        /\ ~IsNone(gt[g].last_seen)
        /\ ~IsStale(gt[g], t)
        /\ Len(gt[g].reid_features) > 0}

CandidateScore(gt, g, d) == FinalScore(Similarities(d, gt[g]))

BestScore(gt, d, t) ==
    IF Candidates(gt, d, t) = {} THEN 0
    ELSE LET g == CHOOSE g \in Candidates(gt, d, t) :
                    \A h \in Candidates(gt, d, t) :
                        CandidateScore(gt, g, d) >= CandidateScore(gt, h, d)
         IN  CandidateScore(gt, g, d)

MatcherStep == AssociateStep /\ last'.matcher_called

(* C12 as stated.  For a well-formed detection that reaches the matcher:   *)
(* when the best combined score is above reid_threshold the call returns a *)
(* candidate with that score; when it is equal to or below the threshold   *)
(* the matcher's result is None and the call returns a new identifier.     *)
C12_BelowThresholdMatchIsNone ==
    [][(MatcherStep /\ WellFormed(last'.d))
       => IF BestScore(global_tracks, last'.d, now) > ScaledThreshold
          THEN /\ last'.ret \in Candidates(global_tracks, last'.d, now)
               /\ CandidateScore(global_tracks, last'.ret, last'.d) =
                    BestScore(global_tracks, last'.d, now)
          ELSE /\ IsNone(last'.match_id)
               /\ last'.ret \notin DOMAIN global_tracks]_vars

(* C12 as amended.  The matcher returns the best score, with a candidate   *)
(* that has it whenever it is positive, threshold or not.  When the best   *)
(* score is above reid_threshold that candidate is updated with the        *)
(* detection, and its identifier is what the call returns if it returns;   *)
(* when the best score is equal to or below the threshold no track is      *)
(* changed and what the call returns, if it returns, is a new identifier.  *)
C12_MatchIffAboveThreshold ==
    [][MatcherStep
       => LET d == last'.d
              best == BestScore(global_tracks, d, now)
          IN  /\ last'.match_score = best
              /\ IsNone(last'.match_id) <=> best = 0
              /\ best > 0 =>
                    /\ Get(last'.match_id) \in Candidates(global_tracks, d, now)
                    /\ CandidateScore(global_tracks, Get(last'.match_id), d) = best
              /\ IF best > ScaledThreshold
                 THEN LET g == Get(last'.match_id) IN
                      /\ g \in DOMAIN global_tracks'
                      /\ d.camera_id \in global_tracks'[g].cameras_seen
                      /\ global_tracks'[g].total_detections =
                            global_tracks[g].total_detections + 1
                      /\ ~last'.exc => last'.ret = g
                 ELSE /\ \A g \in DOMAIN global_tracks \cap DOMAIN global_tracks' :
                            global_tracks'[g] = global_tracks[g]
                      /\ ~last'.exc => last'.ret \notin DOMAIN global_tracks]_vars

(* C12 witness: the best score was exactly the threshold, the matcher      *)
(* returned its candidate, and the detection got a track of its own.       *)
C12_Witness ==
    /\ AssociateReturned
    /\ last.path = "created"
    /\ last.match_score = ScaledThreshold
    /\ ~IsNone(last.match_id)
    /\ Get(last.match_id) \in LiveIds
    /\ last.ret # Get(last.match_id)

----------------------------------------------------------------------------
(* C13.  The calls of the producers interleave in every order, each call   *)
(* running to completion.  Between calls total_detections is the number of *)
(* detections submitted, and new_tracks_created +                          *)
(* cross_camera_associations <= total_detections.                          *)
C13_CountersConsistent ==
    /\ metrics.total_detections = submitted
    /\ metrics.new_tracks_created + metrics.cross_camera_associations
            <= metrics.total_detections

(* C13 witness: detections of both cameras have been submitted, one was    *)
(* matched across cameras, and one call ended without counting a track.    *)
C13_Witness ==
    /\ submitted >= 3
    /\ DOMAIN camera_tracks = Cameras
    /\ metrics.cross_camera_associations >= 1
    /\ metrics.new_tracks_created >= 1
    /\ metrics.new_tracks_created + metrics.cross_camera_associations
            < metrics.total_detections

----------------------------------------------------------------------------
(* C14.  When a fault occurs in the update of a call (the matcher found a  *)
(* track above the threshold and the call leaves the try block through the *)
(* except handler), the call returns the identifier of a newly created     *)
(* live track and the errors counter of the metrics has grown by one.  A   *)
(* metrics dict without an errors key counts no errors.                    *)
ErrorsCounted(mt) == IF "errors" \in DOMAIN mt THEN mt.errors ELSE 0

C14_FaultCountedAndRecovered ==
    [][(/\ MatcherStep
        /\ last'.match_score > ScaledThreshold
        /\ last'.path = "fallback")
       => /\ ~last'.exc
          /\ last'.ret \in DOMAIN global_tracks' \ DOMAIN global_tracks
          /\ ErrorsCounted(metrics') = ErrorsCounted(metrics) + 1]_vars

----------------------------------------------------------------------------
(* C15.  After every call each live track's reid_features holds at most    *)
(* max_history embeddings; a track the call created holds the last         *)
(* max_history of what the detection brought, a track the call updated     *)
(* holds the last max_history of its former memory followed by the         *)
(* detection's embedding, and every other track's memory is as it was.  So *)
(* the memory is always the last min(n, max_history) embeddings appended.  *)
LastN(q, n) == SubSeq(q, Max2(1, Len(q) - n + 1), Len(q))

WithEmbedding(q, d) ==
    IF IsNone(d.reid_features) THEN q ELSE q \o <<Get(d.reid_features)>>

----------------------------------------------------------------------------
(* C16.  Every live track whose two times are set has last_seen >=         *)
(* creation_time.                                                          *)
C16_LastSeenNotBeforeCreation ==
    \A g \in LiveIds :
        (~IsNone(global_tracks[g].last_seen) /\ ~IsNone(global_tracks[g].creation_time))
            => Get(global_tracks[g].last_seen) >= Get(global_tracks[g].creation_time)

----------------------------------------------------------------------------
(* C17.  For every live track, every camera in cameras_seen is a key of    *)
(* trajectory_history with at least one point under it.                    *)
C17_SeenCamerasHaveTrajectory ==
    \A g \in LiveIds : \A c \in global_tracks[g].cameras_seen :
        /\ c \in DOMAIN global_tracks[g].trajectory_history
        /\ Len(global_tracks[g].trajectory_history[c]) > 0

----------------------------------------------------------------------------
(* C18.  A track is observable when get_global_track returns it or the     *)
(* export lists it.  After every call, taken at wall-clock time now: each  *)
(* track that was within the timeout when the call started is observable,  *)
(* and each observable track whose last_seen is set has                    *)
(* now - last_seen <= track_timeout.                                       *)
Observable(g) ==
    \/ ~IsNone(get_global_track(Self, g).ret)
    \/ /\ ~export_tracks_for_validation(Self, now).exc
       /\ g \in DOMAIN export_tracks_for_validation(Self, now).ret.tracks

C18_ObservableIffFreshAtLastPass ==
    [][AssociateStep
       => /\ \A g \in DOMAIN global_tracks \ StaleAt(global_tracks, now) :
                ~IsNone(global_tracks[g].last_seen) => Observable(g)'
          /\ \A g \in DOMAIN global_tracks \cup DOMAIN global_tracks' :
                (Observable(g)' /\ ~IsNone(global_tracks'[g].last_seen))
                    => now - Get(global_tracks'[g].last_seen) <= TrackTimeout]_vars

----------------------------------------------------------------------------
(* C19.  A step that is neither a call of associate_detection nor the      *)
(* passing of time is a read query (get_track_statistics,                  *)
(* get_global_track, get_camera_tracks with or without a write by the      *)
(* caller into the mapping it got, export_tracks_for_validation); it       *)
(* leaves global_tracks, camera_tracks with its set of camera keys,        *)
(* global_id_counter and metrics as they were.                             *)
QueryStep == submitted' = submitted /\ now' = now

C19_QueriesLeaveStateUnchanged ==
    [][QueryStep
       => /\ global_tracks' = global_tracks
          /\ camera_tracks' = camera_tracks
          /\ DOMAIN camera_tracks' = DOMAIN camera_tracks
          /\ global_id_counter' = global_id_counter
          /\ metrics' = metrics]_vars

(* C19 witness: the queries have tracks and mappings to return, and        *)
(* get_camera_tracks is asked for a camera that is not a key of            *)
(* camera_tracks as well as for one that has entries.                      *)
C19_Witness ==
    /\ LiveIds # {}
    /\ ~get_track_statistics(Self, now).exc
    /\ get_track_statistics(Self, now).ret.total_global_tracks = Cardinality(LiveIds)
    /\ DOMAIN export_tracks_for_validation(Self, now).ret.tracks = LiveIds
    /\ \E g \in QueryIds : get_global_track(Self, g).ret = Some(global_tracks[g])
    /\ \E c \in QueryCameras :
        /\ c \notin DOMAIN camera_tracks
        /\ get_camera_tracks(Self, c).ret = EmptyDict
    /\ \E c \in QueryCameras :
        /\ DOMAIN get_camera_tracks(Self, c).ret # {}
        /\ get_camera_tracks(Self, c).ret = camera_tracks[c]

----------------------------------------------------------------------------
(* C20.  metrics['processing_time_ms'] never holds more than 1000 samples. *)
C20_LatencyStoreBounded == metrics.processing_time_ms <= LatencyWindow

----------------------------------------------------------------------------
(* C21.  A call for a detection that lacks a mandatory field (here: whose  *)
(* timestamp is still None after __post_init__) returns no identifier and  *)
(* leaves global_tracks, camera_tracks, global_id_counter and every        *)
(* counter of metrics as they were.                                        *)
MissingMandatoryField(d) == IsNone(d.timestamp)

C21_InvalidInputRejected ==
    [][(AssociateStep /\ MissingMandatoryField(last'.d))
       => /\ IsNone(last'.ret)
          /\ global_tracks' = global_tracks
          /\ camera_tracks' = camera_tracks
          /\ global_id_counter' = global_id_counter
          /\ metrics' = metrics]_vars

----------------------------------------------------------------------------
(* C22.  For a detection whose embedding has another shape than the stored *)
(* ones: its similarity to every stored embedding is 0, the matcher        *)
(* returns no track, the call does not raise, and it returns an identifier *)
(* that was not in global_tracks before.                                   *)
ShapeMismatch(d, gt) ==
    /\ ~IsNone(d.reid_features)
    /\ \A g \in DOMAIN gt : \A i \in 1..Len(gt[g].reid_features) :
            Len(gt[g].reid_features[i]) # Len(Get(d.reid_features))

C22_ShapeMismatchCreatesTrack ==
    [][(/\ AssociateStep
        /\ global_tracks # EmptyDict
        /\ ShapeMismatch(last'.d, global_tracks))
       => /\ \A g \in DOMAIN global_tracks :
                \A i \in 1..Len(global_tracks[g].reid_features) :
                    compute_reid_similarity(Get(last'.d.reid_features),
                                            global_tracks[g].reid_features[i]) = 0
          /\ last'.match_score = 0
          /\ IsNone(last'.match_id)
          /\ ~last'.exc
          /\ last'.ret \in DOMAIN global_tracks' \ DOMAIN global_tracks]_vars

----------------------------------------------------------------------------
(* C23.  Every result of the similarity kernel lies in [0, 1]: a negative  *)
(* cosine gives 0, a quotient rounded above 1 gives 1, a zero vector gives *)
(* 0.                                                                      *)
KernelApplied == last.op = "similarity"

Comparable(f1, f2) == Len(f1) = Len(f2) /\ Norm(f1) # 0 /\ Norm(f2) # 0

----------------------------------------------------------------------------
(* C24.  When several candidates have the best combined score, the matcher *)
(* returns the one seen most recently, and among those seen at the same    *)
(* time the one with the smaller global_id.                                *)
TopCandidates(gt, d, t) ==
    {g \in Candidates(gt, d, t) : CandidateScore(gt, g, d) = BestScore(gt, d, t)}

Precedes(gt, g, h) ==
    \/ Get(gt[g].last_seen) > Get(gt[h].last_seen)
    \/ /\ Get(gt[g].last_seen) = Get(gt[h].last_seen)
       /\ IdNumber(g) < IdNumber(h)

C24_TieGoesToMostRecent ==
    [][(MatcherStep /\ WellFormed(last'.d) /\ ~IsNone(last'.match_id))
       => \A h \in TopCandidates(global_tracks, last'.d, now) \ {Get(last'.match_id)} :
            Precedes(global_tracks, Get(last'.match_id), h)]_vars

----------------------------------------------------------------------------
(* C25.  A call that ends in a match changes exactly the matched track:    *)
(* its memory gains the embedding, the trajectory of the detection's       *)
(* camera gains one record, the camera is added to cameras_seen, last_seen *)
(* becomes the detection's timestamp, the confidence is appended and       *)
(* total_detections grows by one.  cross_camera_associations grows by one. *)
(* Every other track the call keeps, global_id_counter and                 *)
(* new_tracks_created are as before, and no track is added.                *)
MatchStep == AssociateStep /\ ~last'.exc /\ last'.path = "matched"

TrajectoryOf(track, c) ==
    IF c \in DOMAIN track.trajectory_history THEN track.trajectory_history[c]
    ELSE <<>>

MatchEffect(old, new, d) ==
    /\ new.global_id = old.global_id
    /\ new.creation_time = old.creation_time
    /\ new.reid_features = LastN(WithEmbedding(old.reid_features, d), MaxHistory)
    /\ DOMAIN new.trajectory_history =
            DOMAIN old.trajectory_history \cup {d.camera_id}
    /\ \A c \in DOMAIN new.trajectory_history :
            new.trajectory_history[c] =
                IF c = d.camera_id
                THEN Append(TrajectoryOf(old, c), TrajectoryPoint(d))
                ELSE old.trajectory_history[c]
    /\ new.cameras_seen = old.cameras_seen \cup {d.camera_id}
    /\ new.last_seen = d.timestamp
    /\ new.confidence_scores = Append(old.confidence_scores, d.confidence)
    /\ new.total_detections = old.total_detections + 1

C25_MatchChangesOnlyWinner ==
    [][MatchStep
       => /\ last'.ret \in DOMAIN global_tracks \cap DOMAIN global_tracks'
          /\ MatchEffect(global_tracks[last'.ret], global_tracks'[last'.ret],
                         last'.d)
          /\ DOMAIN global_tracks' \subseteq DOMAIN global_tracks
          /\ \A g \in DOMAIN global_tracks' \ {last'.ret} :
                global_tracks'[g] = global_tracks[g]
          /\ metrics'.cross_camera_associations =
                metrics.cross_camera_associations + 1
          /\ metrics'.new_tracks_created = metrics.new_tracks_created
          /\ global_id_counter' = global_id_counter]_vars

(* A matched call after which another track is live and the matched track  *)
(* was last seen later than it was created.                                *)
C25_Witness ==
    /\ AssociateReturned
    /\ last.path = "matched"
    /\ Cardinality(LiveIds) >= 2
    /\ Cardinality(global_tracks[last.ret].cameras_seen) = 2
    /\ global_tracks[last.ret].last_seen = last.d.timestamp
    /\ Get(global_tracks[last.ret].last_seen)
            > Get(global_tracks[last.ret].creation_time)

----------------------------------------------------------------------------
(* C26.  The GC pass of a call removes exactly the tracks with             *)
(* now - last_seen > track_timeout (a track at exactly the timeout stays), *)
(* adds their number to tracks_timeout, drops exactly the camera-local     *)
(* mappings that pointed at them, and leaves every surviving track as it   *)
(* was (the one the rest of the call updates aside).                       *)
IndexEntries(ct) == UNION {{<<c, l>> : l \in DOMAIN ct[c]} : c \in DOMAIN ct}

MatcherChoice(l) == IF IsNone(l.match_id) THEN {} ELSE {Get(l.match_id)}

C26_GcRemovesExactlyStale ==
    [][AssociateStep
       => LET stale == StaleAt(global_tracks, now)
              bound == <<last'.d.camera_id, last'.d.local_id>>
          IN  /\ DOMAIN global_tracks \cap DOMAIN global_tracks'
                    = DOMAIN global_tracks \ stale
              /\ metrics'.tracks_timeout = metrics.tracks_timeout + Cardinality(stale)
              /\ \A e \in IndexEntries(camera_tracks) \ {bound} :
                    IF camera_tracks[e[1]][e[2]] \in stale
                    THEN e \notin IndexEntries(camera_tracks')
                    ELSE /\ e \in IndexEntries(camera_tracks')
                         /\ camera_tracks'[e[1]][e[2]] = camera_tracks[e[1]][e[2]]
              /\ \A g \in (DOMAIN global_tracks \ stale) \ MatcherChoice(last') :
                    global_tracks'[g] = global_tracks[g]]_vars

----------------------------------------------------------------------------
(* C27.  The matcher changes nothing: the manager after the scan of a call *)
(* is the manager the scan started from.  When no track is a candidate for *)
(* the detection the scan returns (None, 0.0).                             *)
BeforeScan == cleanup_stale_tracks([Self EXCEPT !.metrics.total_detections = @ + 1],
                                   now).m

C27_MatcherReadOnly ==
    [][MatcherStep
       => \A pre \in {BeforeScan} :
          \A r \in {find_best_match(pre, last'.d, now)} :
            /\ r.m = pre
            /\ last'.match_id = r.id
            /\ last'.match_score = r.score
            /\ Candidates(pre.global_tracks, last'.d, now) = {}
                => /\ ~r.exc
                   /\ IsNone(r.id)
                   /\ r.score = 0]_vars

(* A call whose scan found no candidate although tracks were live: the     *)
(* only live tracks were seen by the detection's own camera.               *)
C27_Witness ==
    /\ AssociateReturned
    /\ last.matcher_called
    /\ IsNone(last.match_id)
    /\ last.match_score = 0
    /\ last.path = "created"
    /\ Cardinality(LiveIds) >= 2
    /\ \A g \in LiveIds : last.d.camera_id \in global_tracks[g].cameras_seen

----------------------------------------------------------------------------
(* C28.  A track whose embedding memory is empty is never what the matcher *)
(* of a later call picks, whatever the threshold, and is never returned or *)
(* changed by a later call: while it lives it has one camera and           *)
(* total_detections = 1.                                                   *)
EmptyMemory(gt) == {g \in DOMAIN gt : Len(gt[g].reid_features) = 0}

C28_EmptyMemoryNeverMatched ==
    [][AssociateStep
       => /\ \A g \in EmptyMemory(global_tracks) :
                /\ g \notin MatcherChoice(last')
                /\ last'.ret # g
                /\ g \in DOMAIN global_tracks' => global_tracks'[g] = global_tracks[g]
          /\ \A g \in EmptyMemory(global_tracks') :
                /\ Cardinality(global_tracks'[g].cameras_seen) = 1
                /\ global_tracks'[g].total_detections = 1]_vars

(* A call with an embedding reached the matcher while a fresh track of     *)
(* another camera with an empty memory was live, and got a new track.      *)
C28_Witness ==
    /\ AssociateReturned
    /\ last.matcher_called
    /\ last.path = "created"
    /\ \E g \in EmptyMemory(global_tracks) :
        /\ g # last.ret
        /\ last.d.camera_id \notin global_tracks[g].cameras_seen
        /\ ~IsNone(global_tracks[g].last_seen)
        /\ ~IsStale(global_tracks[g], last.t)

----------------------------------------------------------------------------
(* C29.  When a call ends in the fault fallback (the except handler), each *)
(* track that was live before the call and is live after it is as it was.  *)
C29_FallbackLeavesTracksUntouched ==
    [][(AssociateStep /\ last'.path = "fallback")
       => \A g \in DOMAIN global_tracks \cap DOMAIN global_tracks' :
            global_tracks'[g] = global_tracks[g]]_vars

----------------------------------------------------------------------------
(* C30.  The calls of the producers interleave in every order; the awaits  *)
(* of a call never suspend, so a call runs from its GC pass to its commit  *)
(* without another call in between.  Whenever a call changes a track that  *)
(* was live before it, that track is the one its matcher chose, it is      *)
(* still in the track map, the detection's camera had not seen it and it   *)
(* is not older than the timeout; a call that returns without a match      *)
(* returns a track that did not exist before.                              *)
CandidatePredicate(gt, g, d, t) ==
    /\ g \in DOMAIN gt
    /\ d.camera_id \notin gt[g].cameras_seen
    /\ ~IsNone(gt[g].last_seen)
    /\ t - Get(gt[g].last_seen) <= TrackTimeout

----------------------------------------------------------------------------
(* C31.  When every source submits in timestamp order, no call lowers the  *)
(* last_seen of a track it keeps.                                          *)
C31_LastSeenNonDecreasing ==
    [][AssociateStep
       => \A g \in DOMAIN global_tracks \cap DOMAIN global_tracks' :
            Get(global_tracks'[g].last_seen) >= Get(global_tracks[g].last_seen)]_vars

----------------------------------------------------------------------------
(* C32.  Whenever get_track_statistics returns, its active_tracks is the   *)
(* number of live tracks with now - last_seen <= track_timeout, i.e. of    *)
(* the tracks a GC pass at the same instant would keep.                    *)
KeptByGc(gt, t) == {g \in DOMAIN gt : ~IsStale(gt[g], t)}

C32_ActiveTracksAreFreshTracks ==
    \A r \in {get_track_statistics(Self, now)} :
        ~r.exc => r.ret.active_tracks = Cardinality(KeptByGc(global_tracks, now))

----------------------------------------------------------------------------
(* C33.  Every live track holds at most one trajectory record per camera,  *)
(* and its total_detections, the number of its cameras and the length of   *)
(* its confidence history are equal.                                       *)
C33_OneRecordPerCamera ==
    \A g \in LiveIds :
        /\ \A c \in DOMAIN global_tracks[g].trajectory_history :
                Len(global_tracks[g].trajectory_history[c]) <= 1
        /\ global_tracks[g].total_detections
                = Cardinality(global_tracks[g].cameras_seen)
        /\ global_tracks[g].total_detections
                = Len(global_tracks[g].confidence_scores)

(* After calls none of which faulted, a track has been seen by two cameras *)
(* and holds one record for each, while a second track holds the record of *)
(* a later detection of one of those cameras.                              *)
C33_Witness ==
    /\ AssociateReturned
    /\ last.path = "created"
    /\ metrics.total_detections
            = metrics.new_tracks_created + metrics.cross_camera_associations
    /\ \A g \in LiveIds : ~IsNone(global_tracks[g].last_seen)
    /\ \E g \in LiveIds :
        /\ g # last.ret
        /\ global_tracks[g].total_detections = 2
        /\ last.d.camera_id \in global_tracks[g].cameras_seen
        /\ \A c \in global_tracks[g].cameras_seen :
                Len(TrajectoryOf(global_tracks[g], c)) = 1

----------------------------------------------------------------------------
(* C34.  In every reachable state global_id_counter = new_tracks_created   *)
(* and the number of live tracks is new_tracks_created - tracks_timeout.   *)
C34_CounterEqualsCreated ==
    /\ global_id_counter = metrics.new_tracks_created
    /\ Cardinality(LiveIds) = metrics.new_tracks_created - metrics.tracks_timeout

----------------------------------------------------------------------------
(* C35.  Every invocation of the probe callback returns OK.  When the      *)
(* processing of the buffer raised, errors has grown by one and            *)
(* frames_processed is as before; otherwise errors is as before.           *)
ProbeStep == probed' = probed + 1

C35_ProbeAlwaysReturnsOk ==
    [][ProbeStep
       => /\ last'.ret = "OK"
          /\ IF last'.handled
             THEN /\ stats'.errors = stats.errors + 1
                  /\ stats'.frames_processed = stats.frames_processed
             ELSE stats'.errors = stats.errors]_vars

(* The callback has just handled an exception raised by the second frame   *)
(* of a batch, after the first frame's detection was handed to the event   *)
(* loop, and an earlier buffer had been processed to its end.              *)
C35_Witness ==
    /\ last.op = "probe"
    /\ last.handled
    /\ last.ret = "OK"
    /\ last.buffer.kind = "batch"
    /\ stats.errors = 1
    /\ stats.frames_processed = 1
    /\ stats.detections_processed >= 1
    /\ Len(tasks) >= 1

====
